---- MODULE Spec2Model ----
(***************************************************************************)
(* Model of crates/re_sdk_comms/src/buffered_client.rs: the buffered       *)
(* Client handle, the msg_encode and tcp_sender worker threads, the        *)
(* send_until_success retry loop and the Ctrl-C handler, connected by      *)
(* unbounded crossbeam channels.                                           *)
(***************************************************************************)
EXTENDS Integers, Sequences, FiniteSets, TLC

\* ---------------------------------------------------------------------
\* Bounds of the model
\* ---------------------------------------------------------------------
MaxCalls == 3
MaxCtrlC == 1
MaxFail == 2
MaxRetryFail == 7
MaxPerProducer == 2
MaxColors == 3
MaxLogFail == 3

InitialAddr == "addr1"
OtherAddr == "addr2"
Addrs == {InitialAddr, OtherAddr}

VARIABLES
    msg_q,          \* channel msg_tx -> msg_rx (MsgMsg)
    packet_q,       \* channel packet_tx -> packet_rx (PacketMsg)
    flushed_q,      \* channel flushed_tx -> flushed_rx (number of FlushedMsg)
    encode_quit_q,  \* channel encode_quit_tx -> encode_quit_rx (number of QuitMsg)
    send_quit_q,    \* channel send_quit_tx -> send_quit_rx (number of QuitMsg)
    enc_pc,         \* msg_encode thread: "select" or how it ended
    snd_pc,         \* tcp_sender thread: "select", "backoff" or how it ended
    hook_pc,        \* Ctrl-C handler: "idle" or "mid" (between its two sends)
    client_pc,      \* thread using the Client handle
    cur_packet,     \* packet held by send_until_success
    sleep_ms,       \* sleep_ms of send_until_success
    tcp_addr,       \* TcpClient address
    wire,           \* history: every TcpClient::send call [packet, addr, ok]
    waits,          \* history: backoff waits elapsed for the current packet
    submitted,      \* history: messages passed to Client::send, in call order
    late,           \* history: messages passed to Client::send after Quit was issued
    quit_seen,      \* history: stages that received a QuitMsg
    last_op,        \* history: the last Client method called
    flush_result,   \* history: outcome of the last flush(): "none", "ok", "warn"
    calls,          \* history: number of send, set_addr and flush calls made
    acks_sent,      \* history: number of FlushedMsg sent by tcp_sender
    ctrlc_count,    \* history: number of Ctrl-C deliveries
    ctrlc_in_wait,   \* history: a Ctrl-C arrived while flush() was blocked
    set_addr_last,  \* history: the address of the last set_addr() call (or of Client::new)
    sent_addr,       \* history: for each submitted message, set_addr_last at its send() call
    colors_in,      \* the list of ColorRGBA given to try_into_arrow
    arrow_array,    \* the Arrow array (MutablePrimitiveArray<u32>) built from it
    colors_out,     \* the list collected back from the array
    color_pc,        \* round trip: "in", "array" (serialized) or "out" (collected)
    err,            \* err of send_until_success: the error of its first attempt ("" outside the loop)
    warn_log,       \* the warnings logged by send_until_success
    last_err,        \* history: the error of the latest failed attempt of the current packet
    flush_calls     \* history: number of flush() calls made, those of drop included

addrHist == <<set_addr_last, sent_addr>>

colorVars == <<colors_in, arrow_array, colors_out, color_pc>>

logVars == <<err, warn_log, last_err>>

flushHist == <<flush_calls>>

pipeVars == <<msg_q, packet_q, flushed_q, encode_quit_q, send_quit_q, enc_pc,
             snd_pc, hook_pc, client_pc, cur_packet, sleep_ms, tcp_addr, wire,
             waits, submitted, late, quit_seen, last_op, flush_result, calls,
             acks_sent, ctrlc_count, ctrlc_in_wait, set_addr_last, sent_addr,
             err, warn_log, last_err, flush_calls>>

vars == <<pipeVars, colorVars>>

\* ---------------------------------------------------------------------
\* Helpers
\* ---------------------------------------------------------------------
Min(a, b) == IF a < b THEN a ELSE b

NoPacket == <<>>

\* crate::encode_log_msg: a pure function from a message to its bytes. It may
\* fail; these are the bytes when it does not (EncRecvMsg), and its failure
\* is the step EncRecvMsgEncodeFails
encode_log_msg(m) == <<m, m + 1>>

\* enum MsgMsg
MsgLogMsg(m) == [type |-> "LogMsg", log_msg |-> m]
MsgSetAddr(a) == [type |-> "SetAddr", addr |-> a]
MsgFlush == [type |-> "Flush"]

\* enum PacketMsg
PacketPacket(p) == [type |-> "Packet", packet |-> p]
PacketSetAddr(a) == [type |-> "SetAddr", addr |-> a]
PacketFlush == [type |-> "Flush"]

\* Which ends of the channels are still held
EncRunning == enc_pc = "select"
SndRunning == snd_pc \in {"select", "backoff"}
\* msg_tx and flushed_rx go with the Client: when drop returns, or when the
\* flush() inside drop panics and the unwinding drops the fields. A panic of
\* send, set_addr or flush leaves the Client with its owner.
ClientHolds == /\ client_pc # "dropped"
               /\ ~(client_pc = "panicked" /\ last_op = "drop")

\* TcpClient::send: one attempt, accepted or refused by the network
Fails == Cardinality({i \in 1..Len(wire) : ~wire[i].ok})
TcpOutcomes(budget) == IF Fails < budget THEN {TRUE, FALSE} ELSE {TRUE}
TcpSendCall(p, ok) == Append(wire, [packet |-> p, addr |-> tcp_addr, ok |-> ok])

\* The texts of the errors TcpClient::send returns, and the warning logged
NoErr == ""
Refused == "Connection refused"
TimedOut == "timed out"
Errors == {Refused, TimedOut}
Warning(e) == <<"Failed to send message: ", e>>

\* send_until_success: policy of the backoff
InitialSleepMs == 100
MaxSleepMs == 3000
NextSleepMsNoCap(ms) == ms * 2

NextSleepMs(ms) == Min(ms * 2, MaxSleepMs)

\* ---------------------------------------------------------------------
\* Initial state: Client::new has spawned both threads and set the handler
\* ---------------------------------------------------------------------
PipelineInit ==
    /\ msg_q = <<>>
    /\ packet_q = <<>>
    /\ flushed_q = 0
    /\ encode_quit_q = 0
    /\ send_quit_q = 0
    /\ enc_pc = "select"
    /\ snd_pc = "select"
    /\ hook_pc = "idle"
    /\ client_pc = "idle"
    /\ cur_packet = NoPacket
    /\ sleep_ms = 0
    /\ tcp_addr = InitialAddr
    /\ wire = <<>>
    /\ waits = <<>>
    /\ submitted = <<>>
    /\ late = {}
    /\ quit_seen = {}
    /\ last_op = "none"
    /\ flush_result = "none"
    /\ calls = 0
    /\ acks_sent = 0
    /\ ctrlc_count = 0
    /\ ctrlc_in_wait = FALSE
    /\ set_addr_last = InitialAddr
    /\ sent_addr = <<>>
    /\ err = NoErr
    /\ warn_log = <<>>
    /\ last_err = NoErr
    /\ flush_calls = 0

Init ==
    /\ PipelineInit
    /\ colors_in = <<>>
    /\ arrow_array = <<>>
    /\ colors_out = <<>>
    /\ color_pc = "out"

\* ---------------------------------------------------------------------
\* Client handle (lines 77-116)
\* ---------------------------------------------------------------------
QuitIssued == ctrlc_count > 0 /\ hook_pc = "idle"

\* self.msg_tx.send(item).expect(..): fails once msg_rx is gone
MsgTxSend(item, next_pc) ==
    IF EncRunning
    THEN /\ msg_q' = Append(msg_q, item)
         /\ client_pc' = next_pc
    ELSE /\ msg_q' = msg_q
         /\ client_pc' = "panicked"

\* The log_msg of the n-th call of send is message n
NextMsg == Len(submitted) + 1

ClientSendMsg(m) ==
    /\ client_pc = "idle"
    /\ calls' = calls + 1
    /\ submitted' = Append(submitted, m)
    /\ late' = IF QuitIssued THEN late \cup {m} ELSE late
    /\ last_op' = "send"
    /\ MsgTxSend(MsgLogMsg(m), "idle")
    /\ sent_addr' = Append(sent_addr, set_addr_last)
    /\ UNCHANGED set_addr_last
    /\ UNCHANGED colorVars
    /\ UNCHANGED logVars
    /\ UNCHANGED flushHist
    /\ UNCHANGED <<packet_q, flushed_q, encode_quit_q, send_quit_q, enc_pc, snd_pc,
                   hook_pc, cur_packet, sleep_ms, tcp_addr, wire, waits, quit_seen,
                   flush_result, acks_sent, ctrlc_count, ctrlc_in_wait>>

ClientSetAddr(a) ==
    /\ client_pc = "idle"
    /\ calls < MaxCalls
    /\ calls' = calls + 1
    /\ last_op' = "set_addr"
    /\ MsgTxSend(MsgSetAddr(a), "idle")
    /\ set_addr_last' = a
    /\ UNCHANGED sent_addr
    /\ UNCHANGED colorVars
    /\ UNCHANGED logVars
    /\ UNCHANGED flushHist
    /\ UNCHANGED <<packet_q, flushed_q, encode_quit_q, send_quit_q, enc_pc, snd_pc,
                   hook_pc, cur_packet, sleep_ms, tcp_addr, wire, waits, submitted,
                   late, quit_seen, flush_result, acks_sent, ctrlc_count,
                   ctrlc_in_wait>>

ClientSend ==
    /\ calls < MaxCalls
    /\ ClientSendMsg(NextMsg)

\* Several producer threads sharing the handle: send takes &mut self, so one
\* call runs at a time; producer p submits its own messages p.1, p.2, ...
Producers == {1, 2}

ProducerMsg(p, k) == p * 10 + k

ProducerOf(m) == m \div 10

SentBy(p) == Cardinality({i \in 1..Len(submitted) : ProducerOf(submitted[i]) = p})

ProducerSend(p) ==
    /\ SentBy(p) < MaxPerProducer
    /\ ClientSendMsg(ProducerMsg(p, SentBy(p) + 1))

\* flush(), first half: enqueue MsgMsg::Flush, then wait on flushed_rx
ClientFlush ==
    /\ client_pc = "idle"
    /\ calls < MaxCalls
    /\ calls' = calls + 1
    /\ last_op' = "flush"
    /\ flush_result' = "none"
    /\ MsgTxSend(MsgFlush, "flush_wait")
    /\ UNCHANGED addrHist
    /\ UNCHANGED colorVars
    /\ UNCHANGED logVars
    /\ flush_calls' = flush_calls + 1
    /\ UNCHANGED <<packet_q, flushed_q, encode_quit_q, send_quit_q, enc_pc, snd_pc,
                   hook_pc, cur_packet, sleep_ms, tcp_addr, wire, waits, submitted,
                   late, quit_seen, acks_sent, ctrlc_count,
                   ctrlc_in_wait>>

\* Drop for Client: the same flush, after which the handle's channel ends go
ClientDrop ==
    /\ client_pc = "idle"
    /\ last_op' = "drop"
    /\ flush_result' = "none"
    /\ MsgTxSend(MsgFlush, "drop_wait")
    /\ UNCHANGED addrHist
    /\ UNCHANGED colorVars
    /\ UNCHANGED logVars
    /\ flush_calls' = flush_calls + 1
    /\ UNCHANGED <<packet_q, flushed_q, encode_quit_q, send_quit_q, enc_pc, snd_pc,
                   hook_pc, cur_packet, sleep_ms, tcp_addr, wire, waits, submitted,
                   late, quit_seen, calls, acks_sent, ctrlc_count,
                   ctrlc_in_wait>>

\* self.flushed_rx.recv() and its match
FlushRecvBlocksForever(acks, sender_running) ==
    IF acks > 0 THEN "ok" ELSE "blocked"

FlushRecvErrIsComplete(acks, sender_running) ==
    IF acks > 0 \/ ~sender_running THEN "ok" ELSE "blocked"

FlushRecv(acks, sender_running) ==
    IF acks > 0 THEN "ok"
    ELSE IF ~sender_running THEN "warn"
    ELSE "blocked"

ClientFlushReturn ==
    /\ client_pc \in {"flush_wait", "drop_wait"}
    /\ FlushRecv(flushed_q, SndRunning) # "blocked"
    /\ flush_result' = FlushRecv(flushed_q, SndRunning)
    /\ flushed_q' = IF flushed_q > 0 THEN flushed_q - 1 ELSE flushed_q
    /\ client_pc' = IF client_pc = "flush_wait" THEN "idle" ELSE "dropped"
    /\ UNCHANGED addrHist
    /\ UNCHANGED colorVars
    /\ UNCHANGED logVars
    /\ UNCHANGED flushHist
    /\ UNCHANGED <<msg_q, packet_q, encode_quit_q, send_quit_q, enc_pc, snd_pc,
                   hook_pc, cur_packet, sleep_ms, tcp_addr, wire, waits, submitted,
                   late, quit_seen, last_op, calls, acks_sent,
                   ctrlc_count,
                   ctrlc_in_wait>>

\* ---------------------------------------------------------------------
\* Ctrl-C handler (lines 67-72): two sends, each ignoring its error
\* ---------------------------------------------------------------------
CtrlCEncodeQuit ==
    /\ hook_pc = "idle"
    /\ ctrlc_count < MaxCtrlC
    /\ ctrlc_count' = ctrlc_count + 1
    /\ encode_quit_q' = IF EncRunning THEN encode_quit_q + 1 ELSE encode_quit_q
    /\ hook_pc' = "mid"
    /\ ctrlc_in_wait' = (ctrlc_in_wait \/ client_pc \in {"flush_wait", "drop_wait"})
    /\ UNCHANGED addrHist
    /\ UNCHANGED colorVars
    /\ UNCHANGED logVars
    /\ UNCHANGED flushHist
    /\ UNCHANGED <<msg_q, packet_q, flushed_q, send_quit_q, enc_pc, snd_pc, client_pc,
                   cur_packet, sleep_ms, tcp_addr, wire, waits, submitted, late,
                   quit_seen, last_op, flush_result, calls, acks_sent>>

CtrlCSendQuit ==
    /\ hook_pc = "mid"
    /\ send_quit_q' = IF SndRunning THEN send_quit_q + 1 ELSE send_quit_q
    /\ hook_pc' = "idle"
    /\ UNCHANGED addrHist
    /\ UNCHANGED colorVars
    /\ UNCHANGED logVars
    /\ UNCHANGED flushHist
    /\ UNCHANGED <<msg_q, packet_q, flushed_q, encode_quit_q, enc_pc, snd_pc, client_pc,
                   cur_packet, sleep_ms, tcp_addr, wire, waits, submitted, late,
                   quit_seen, last_op, flush_result, calls, acks_sent, ctrlc_count,
                   ctrlc_in_wait>>

\* ---------------------------------------------------------------------
\* msg_encode (lines 118-149)
\* ---------------------------------------------------------------------
MsgToPacket(msg_msg) ==
    CASE msg_msg.type = "LogMsg" -> PacketPacket(encode_log_msg(msg_msg.log_msg))
      [] msg_msg.type = "SetAddr" -> PacketSetAddr(msg_msg.addr)
      [] msg_msg.type = "Flush" -> PacketFlush

\* packet_tx.send(packet_msg): the packet channel is first in, first out
PacketTxSendControlFirst(q, packet_msg) ==
    IF packet_msg.type = "Packet" THEN Append(q, packet_msg) ELSE <<packet_msg>> \o q

PacketTxSend(q, packet_msg) == Append(q, packet_msg)

\* recv(msg_rx) -> Ok(msg_msg): convert and forward; the forward's expect
\* fails once packet_rx is gone
EncRecvMsg ==
    /\ enc_pc = "select"
    /\ msg_q # <<>>
    /\ msg_q' = Tail(msg_q)
    /\ IF SndRunning
       THEN /\ packet_q' = PacketTxSend(packet_q, MsgToPacket(Head(msg_q)))
            /\ enc_pc' = "select"
       ELSE /\ packet_q' = packet_q
            /\ enc_pc' = "panicked"
    /\ UNCHANGED addrHist
    /\ UNCHANGED colorVars
    /\ UNCHANGED logVars
    /\ UNCHANGED flushHist
    /\ UNCHANGED <<flushed_q, encode_quit_q, send_quit_q, snd_pc, hook_pc, client_pc,
                   cur_packet, sleep_ms, tcp_addr, wire, waits, submitted, late,
                   quit_seen, last_op, flush_result, calls, acks_sent, ctrlc_count,
                   ctrlc_in_wait>>

\* crate::encode_log_msg fails on a LogMsg: line 129 takes its result as the
\* packet itself (no Result, no error branch), so a failure can only unwind
\* msg_encode; the thread ends, msg_rx and packet_tx are dropped
EncAfterEncodeFailure == "panicked"

EncRecvMsgEncodeFails ==
    /\ enc_pc = "select"
    /\ msg_q # <<>>
    /\ Head(msg_q).type = "LogMsg"
    /\ msg_q' = Tail(msg_q)
    /\ enc_pc' = EncAfterEncodeFailure
    /\ UNCHANGED addrHist
    /\ UNCHANGED colorVars
    /\ UNCHANGED logVars
    /\ UNCHANGED flushHist
    /\ UNCHANGED <<packet_q, flushed_q, encode_quit_q, send_quit_q, snd_pc, hook_pc,
                   client_pc, cur_packet, sleep_ms, tcp_addr, wire, waits, submitted,
                   late, quit_seen, last_op, flush_result, calls, acks_sent,
                   ctrlc_count, ctrlc_in_wait>>

\* recv(msg_rx) -> Err: channel has closed
EncAfterClosedContinue == "select"

EncAfterClosed == "closed"

EncRecvClosed ==
    /\ enc_pc = "select"
    /\ msg_q = <<>>
    /\ ~ClientHolds
    /\ enc_pc' = EncAfterClosed
    /\ UNCHANGED addrHist
    /\ UNCHANGED colorVars
    /\ UNCHANGED logVars
    /\ UNCHANGED flushHist
    /\ UNCHANGED <<msg_q, packet_q, flushed_q, encode_quit_q, send_quit_q, snd_pc,
                   hook_pc, client_pc, cur_packet, sleep_ms, tcp_addr, wire, waits,
                   submitted, late, quit_seen, last_op, flush_result, calls, acks_sent, ctrlc_count,
                   ctrlc_in_wait>>

\* recv(quit_rx): return
EncAfterQuitContinue == "select"

EncAfterQuit == "quit"

EncRecvQuit ==
    /\ enc_pc = "select"
    /\ encode_quit_q > 0
    /\ encode_quit_q' = encode_quit_q - 1
    /\ quit_seen' = quit_seen \cup {"msg_encode"}
    /\ enc_pc' = EncAfterQuit
    /\ UNCHANGED addrHist
    /\ UNCHANGED colorVars
    /\ UNCHANGED logVars
    /\ UNCHANGED flushHist
    /\ UNCHANGED <<msg_q, packet_q, flushed_q, send_quit_q, snd_pc, hook_pc, client_pc,
                   cur_packet, sleep_ms, tcp_addr, wire, waits, submitted, late,
                   last_op, flush_result, calls, acks_sent,
                   ctrlc_count,
                   ctrlc_in_wait>>

\* ---------------------------------------------------------------------
\* tcp_sender (lines 151-188) and send_until_success (lines 190-220)
\* ---------------------------------------------------------------------
\* if let Err(..) = tcp_client.send(packet): where the sender goes after an attempt
SndAfterSendGivesUp(ok) == "select"

SndAfterSendKeepsRetrying(ok) == "backoff"

SndAfterSendRetryLimit(ok) == IF ok \/ Len(waits) >= 3 THEN "select" ELSE "backoff"

SndAfterSend(ok) == IF ok THEN "select" ELSE "backoff"

\* recv(packet_rx) -> Ok(PacketMsg::Packet(packet)): the first attempt of
\* send_until_success; on Err it sets sleep_ms = 100 and enters its loop
SndRecvPacketFrom(budget, errs) ==
    /\ snd_pc = "select"
    /\ packet_q # <<>>
    /\ Head(packet_q).type = "Packet"
    /\ packet_q' = Tail(packet_q)
    /\ \E ok \in TcpOutcomes(budget), e \in errs :
        /\ wire' = TcpSendCall(Head(packet_q).packet, ok)
        /\ err' = IF ok THEN NoErr ELSE e
        /\ warn_log' = IF ok THEN warn_log ELSE Append(warn_log, Warning(e))
        /\ last_err' = IF ok THEN NoErr ELSE e
        /\ snd_pc' = SndAfterSend(ok)
        /\ cur_packet' = IF SndAfterSend(ok) = "backoff"
                         THEN Head(packet_q).packet ELSE NoPacket
        /\ sleep_ms' = IF SndAfterSend(ok) = "backoff" THEN InitialSleepMs ELSE 0
    /\ waits' = <<>>
    /\ UNCHANGED addrHist
    /\ UNCHANGED colorVars
    /\ UNCHANGED flushHist
    /\ UNCHANGED <<msg_q, flushed_q, encode_quit_q, send_quit_q, enc_pc, hook_pc,
                   client_pc, tcp_addr, submitted, late, quit_seen, last_op,
                   flush_result, calls, acks_sent, ctrlc_count,
                   ctrlc_in_wait>>

SndRecvPacketWith(budget) == SndRecvPacketFrom(budget, {Refused})

SndRecvPacket == SndRecvPacketWith(MaxFail)

\* PacketMsg::SetAddr(new_addr) => tcp_client.set_addr(new_addr)
SndRecvSetAddr ==
    /\ snd_pc = "select"
    /\ packet_q # <<>>
    /\ Head(packet_q).type = "SetAddr"
    /\ packet_q' = Tail(packet_q)
    /\ tcp_addr' = Head(packet_q).addr
    /\ UNCHANGED addrHist
    /\ UNCHANGED colorVars
    /\ UNCHANGED logVars
    /\ UNCHANGED flushHist
    /\ UNCHANGED <<msg_q, flushed_q, encode_quit_q, send_quit_q, enc_pc, snd_pc,
                   hook_pc, client_pc, cur_packet, sleep_ms, wire, waits, submitted,
                   late, quit_seen, last_op, flush_result, calls, acks_sent, ctrlc_count,
                   ctrlc_in_wait>>

\* flushed_tx.send(FlushedMsg): one FlushedMsg
FlushedTxSendTwice(q) == q + 2

FlushedTxSend(q) == q + 1

\* PacketMsg::Flush => tcp_client.flush(); flushed_tx.send(FlushedMsg).expect(..)
SndRecvFlush ==
    /\ snd_pc = "select"
    /\ packet_q # <<>>
    /\ Head(packet_q).type = "Flush"
    /\ packet_q' = Tail(packet_q)
    /\ IF ClientHolds
       THEN /\ flushed_q' = FlushedTxSend(flushed_q)
            /\ acks_sent' = acks_sent + 1
            /\ snd_pc' = "select"
       ELSE /\ flushed_q' = flushed_q
            /\ acks_sent' = acks_sent
            /\ snd_pc' = "panicked"
    /\ UNCHANGED addrHist
    /\ UNCHANGED colorVars
    /\ UNCHANGED logVars
    /\ UNCHANGED flushHist
    /\ UNCHANGED <<msg_q, encode_quit_q, send_quit_q, enc_pc, hook_pc, client_pc,
                   cur_packet, sleep_ms, tcp_addr, wire, waits, submitted, late,
                   quit_seen, last_op, flush_result, calls,
                   ctrlc_count,
                   ctrlc_in_wait>>

\* recv(packet_rx) -> Err: channel has closed
SndRecvClosed ==
    /\ snd_pc = "select"
    /\ packet_q = <<>>
    /\ ~EncRunning
    /\ snd_pc' = "closed"
    /\ UNCHANGED addrHist
    /\ UNCHANGED colorVars
    /\ UNCHANGED logVars
    /\ UNCHANGED flushHist
    /\ UNCHANGED <<msg_q, packet_q, flushed_q, encode_quit_q, send_quit_q, enc_pc,
                   hook_pc, client_pc, cur_packet, sleep_ms, tcp_addr, wire, waits,
                   submitted, late, quit_seen, last_op, flush_result, calls, acks_sent, ctrlc_count,
                   ctrlc_in_wait>>

\* recv(quit_rx) in tcp_sender's select: return
SndAfterQuit == "quit"

SndRecvQuit ==
    /\ snd_pc = "select"
    /\ send_quit_q > 0
    /\ send_quit_q' = send_quit_q - 1
    /\ quit_seen' = quit_seen \cup {"tcp_sender"}
    /\ snd_pc' = SndAfterQuit
    /\ UNCHANGED addrHist
    /\ UNCHANGED colorVars
    /\ UNCHANGED logVars
    /\ UNCHANGED flushHist
    /\ UNCHANGED <<msg_q, packet_q, flushed_q, encode_quit_q, enc_pc, hook_pc,
                   client_pc, cur_packet, sleep_ms, tcp_addr, wire, waits, submitted,
                   late, last_op, flush_result, calls, acks_sent,
                   ctrlc_count,
                   ctrlc_in_wait>>

\* recv(quit_rx) in send_until_success's select: return Some(QuitMsg),
\* on which tcp_sender returns
SndAfterBackoffQuitSkipsPacket == "select"

SndAfterBackoffQuit == "quit"

SndBackoffQuit ==
    /\ snd_pc = "backoff"
    /\ send_quit_q > 0
    /\ send_quit_q' = send_quit_q - 1
    /\ quit_seen' = quit_seen \cup {"tcp_sender"}
    /\ snd_pc' = SndAfterBackoffQuit
    /\ UNCHANGED addrHist
    /\ UNCHANGED colorVars
    /\ UNCHANGED logVars
    /\ UNCHANGED flushHist
    /\ UNCHANGED <<msg_q, packet_q, flushed_q, encode_quit_q, enc_pc, hook_pc,
                   client_pc, cur_packet, sleep_ms, tcp_addr, wire, waits, submitted,
                   late, last_op, flush_result, calls, acks_sent,
                   ctrlc_count,
                   ctrlc_in_wait>>

\* default(Duration::from_millis(sleep_ms)): no QuitMsg came during the wait;
\* send again, and on Err double sleep_ms up to the cap
BackoffTimesOutAnyway(quits) == TRUE

BackoffTimesOut(quits) == quits = 0

SndBackoffRetryFrom(budget, errs) ==
    /\ snd_pc = "backoff"
    /\ BackoffTimesOut(send_quit_q)
    /\ waits' = Append(waits, sleep_ms)
    /\ \E ok \in TcpOutcomes(budget), new_err \in errs :
        /\ wire' = TcpSendCall(cur_packet, ok)
        /\ err' = IF ok THEN NoErr ELSE err
        /\ warn_log' = IF ~ok /\ new_err # err
                       THEN Append(warn_log, Warning(err)) ELSE warn_log
        /\ last_err' = IF ok THEN NoErr ELSE new_err
        /\ snd_pc' = SndAfterSend(ok)
        /\ cur_packet' = IF SndAfterSend(ok) = "backoff" THEN cur_packet ELSE NoPacket
        /\ sleep_ms' = IF SndAfterSend(ok) = "backoff" THEN NextSleepMs(sleep_ms) ELSE 0
    /\ UNCHANGED addrHist
    /\ UNCHANGED colorVars
    /\ UNCHANGED flushHist
    /\ UNCHANGED <<msg_q, packet_q, flushed_q, encode_quit_q, send_quit_q, enc_pc,
                   hook_pc, client_pc, tcp_addr, submitted, late, quit_seen, last_op,
                   flush_result, calls, acks_sent, ctrlc_count,
                   ctrlc_in_wait>>

SndBackoffRetryWith(budget) == SndBackoffRetryFrom(budget, {Refused})

SndBackoffRetry == SndBackoffRetryWith(MaxFail)

\* ---------------------------------------------------------------------
\* Specification
\* ---------------------------------------------------------------------
Client == \/ ClientSend
          \/ \E a \in Addrs : ClientSetAddr(a)
          \/ ClientFlush
          \/ ClientDrop
          \/ ClientFlushReturn

Hook == CtrlCEncodeQuit \/ CtrlCSendQuit

Encoder == EncRecvMsg \/ EncRecvMsgEncodeFails \/ EncRecvClosed \/ EncRecvQuit

Sender == \/ SndRecvPacket
          \/ SndRecvSetAddr
          \/ SndRecvFlush
          \/ SndRecvClosed
          \/ SndRecvQuit
          \/ SndBackoffQuit
          \/ SndBackoffRetry

Next == Client \/ Hook \/ Encoder \/ Sender

Spec == Init /\ [][Next]_vars

\* The threads are scheduled fairly and a blocked recv wakes up
FairSpec == Spec /\ WF_vars(Encoder) /\ WF_vars(Sender) /\ WF_vars(ClientFlushReturn)
                 /\ WF_vars(CtrlCSendQuit)

\* The retry loop at depth: messages are sent and never flushed while the
\* network refuses up to MaxRetryFail attempts; Ctrl-C may arrive at any time
SndRecvPacketLong == SndRecvPacketWith(MaxRetryFail)

SndBackoffRetryLong == SndBackoffRetryWith(MaxRetryFail)

RetryNext == \/ ClientSend
             \/ Hook
             \/ EncRecvMsg
             \/ EncRecvMsgEncodeFails
             \/ EncRecvQuit
             \/ SndRecvPacketLong
             \/ SndBackoffRetryLong
             \/ SndRecvClosed
             \/ SndRecvQuit
             \/ SndBackoffQuit

RetrySpec == Init /\ [][RetryNext]_vars

\* Concurrent producers on one handle, an unreliable network, no interrupt
ProducersNext == \/ \E p \in Producers : ProducerSend(p)
                 \/ EncRecvMsg
                 \/ EncRecvMsgEncodeFails
                 \/ SndRecvPacket
                 \/ SndBackoffRetry
                 \/ SndRecvClosed

ProducersSpec == Init /\ [][ProducersNext]_vars

\* The retry loop with errors of different texts, up to MaxLogFail of them
SndRecvPacketErrors == SndRecvPacketFrom(MaxLogFail, Errors)

SndBackoffRetryErrors == SndBackoffRetryFrom(MaxLogFail, Errors)

ErrLogNext == \/ ClientSend
              \/ EncRecvMsg
              \/ EncRecvMsgEncodeFails
              \/ SndRecvPacketErrors
              \/ SndBackoffRetryErrors
              \/ SndRecvClosed

ErrLogSpec == Init /\ [][ErrLogNext]_vars

\* Messages whose encoding may fail, no interrupt
EncodeNext == \/ ClientSend
              \/ ClientFlush
              \/ ClientFlushReturn
              \/ EncRecvMsg
              \/ EncRecvMsgEncodeFails
              \/ SndRecvPacket
              \/ SndBackoffRetry
              \/ SndRecvFlush
              \/ SndRecvClosed

EncodeSpec == Init /\ [][EncodeNext]_vars

\* ---------------------------------------------------------------------
\* ColorRGBA as an Arrow field (re_log_types/src/field_types.rs)
\* ---------------------------------------------------------------------

\* A u32, written as its high and low 16-bit halves
U32(hi, lo) == <<hi % 65536, lo % 65536>>

\* pub struct ColorRGBA(pub u32)
ColorRGBA(x) == [rgba |-> x]

\* 0, 255, 0xFF0000FF and u32::MAX
ColorValues == {U32(0, 0), U32(0, 255), U32(65280, 255), U32(65535, 65535)}

ColorLists == UNION {[1..n -> {ColorRGBA(x) : x \in ColorValues}] : n \in 0..MaxColors}

\* ArrowSerialize::arrow_serialize: array.try_push(Some(v.0))
arrow_serializeAsI32(v, array) ==
    Append(array, [valid |-> TRUE, value |-> <<v.rgba[1] % 32768, v.rgba[2]>>])

arrow_serialize(v, array) == Append(array, [valid |-> TRUE, value |-> v.rgba])

\* ArrowDeserialize::arrow_deserialize: the u32 item, if any, mapped to ColorRGBA
arrow_deserialize(item) == IF item.valid THEN <<ColorRGBA(item.value)>> ELSE <<>>

\* colors_in.try_into_arrow(): a new array, then arrow_serialize per element
RECURSIVE TryIntoArrow(_, _)
TryIntoArrow(colors, array) ==
    IF colors = <<>> THEN array
    ELSE TryIntoArrow(Tail(colors), arrow_serialize(Head(colors), array))

\* try_into_collection(array): arrow_deserialize per item of a non-null field
RECURSIVE TryIntoCollection(_)
TryIntoCollection(array) ==
    IF array = <<>> THEN <<>>
    ELSE <<Head(arrow_deserialize(Head(array)))>> \o TryIntoCollection(Tail(array))

ColorInit ==
    /\ PipelineInit
    /\ colors_in \in ColorLists
    /\ arrow_array = <<>>
    /\ colors_out = <<>>
    /\ color_pc = "in"

ColorSerialize ==
    /\ color_pc = "in"
    /\ arrow_array' = TryIntoArrow(colors_in, <<>>)
    /\ color_pc' = "array"
    /\ UNCHANGED logVars
    /\ UNCHANGED flushHist
    /\ UNCHANGED <<colors_in, colors_out>>
    /\ UNCHANGED pipeVars

ColorDeserialize ==
    /\ color_pc = "array"
    /\ colors_out' = TryIntoCollection(arrow_array)
    /\ color_pc' = "out"
    /\ UNCHANGED logVars
    /\ UNCHANGED flushHist
    /\ UNCHANGED <<colors_in, arrow_array>>
    /\ UNCHANGED pipeVars

ColorNext == ColorSerialize \/ ColorDeserialize

ColorSpec == ColorInit /\ [][ColorNext]_vars

\* ---------------------------------------------------------------------
\* Properties
\* ---------------------------------------------------------------------
Stages == {"msg_encode", "tcp_sender"}

Waiting == client_pc \in {"flush_wait", "drop_wait"}

\* flush() (called directly or from drop) has returned and the handle has
\* made no call since
FlushReturned ==
    \/ last_op = "flush" /\ client_pc = "idle"
    \/ last_op = "drop" /\ client_pc = "dropped"

\* Packets of the send calls that succeeded, in call order
RECURSIVE OkPackets(_)
OkPackets(w) ==
    IF w = <<>> THEN <<>>
    ELSE IF Head(w).ok THEN <<Head(w).packet>> \o OkPackets(Tail(w))
    ELSE OkPackets(Tail(w))

AttemptsOf(w, p) == Cardinality({i \in 1..Len(w) : w[i].packet = p})
FailsOf(w, p) == Cardinality({i \in 1..Len(w) : w[i].packet = p /\ ~w[i].ok})
OksOf(w, p) == Cardinality({i \in 1..Len(w) : w[i].packet = p /\ w[i].ok})

\* C1: when flush() returns with a FlushedMsg, TcpClient::send has been
\* called at least once on the encoding of every message submitted before it.
FlushBarrier ==
    (FlushReturned /\ flush_result = "ok") =>
        \A i \in 1..Len(submitted) :
            \E j \in 1..Len(wire) : wire[j].packet = encode_log_msg(submitted[i])

FlushBarrierWitness ==
    /\ FlushReturned
    /\ flush_result = "ok"
    /\ last_op = "flush"
    /\ Len(submitted) >= 2
    /\ \E j \in 1..Len(wire) : ~wire[j].ok

\* C2: when N sends are followed by a flush() that returns with a FlushedMsg,
\* the packets accepted by the connection are exactly the encodings of the N
\* messages, in submission order.
Ordering ==
    (FlushReturned /\ flush_result = "ok") =>
        OkPackets(wire) = [i \in 1..Len(submitted) |-> encode_log_msg(submitted[i])]

OrderingWitness ==
    /\ FlushReturned
    /\ flush_result = "ok"
    /\ Len(submitted) >= 2
    /\ Len(wire) > Len(submitted)

\* C3: no message submitted after the handler has placed both QuitMsg is
\* ever passed to TcpClient::send.
AbortDrainsNothingFurther ==
    \A j \in 1..Len(wire) : \A m \in late : wire[j].packet # encode_log_msg(m)

\* C4: a stage that has received a QuitMsg has terminated, and from then on
\* takes nothing from its input queue and forwards, sends and acknowledges
\* nothing.
QuitStopsStage ==
    [][ /\ \A st \in quit_seen' : IF st = "msg_encode" THEN enc_pc' = "quit"
                                                      ELSE snd_pc' = "quit"
        /\ "msg_encode" \in quit_seen =>
              /\ msg_q' = msg_q
              /\ Len(packet_q') <= Len(packet_q)
        /\ "tcp_sender" \in quit_seen =>
              /\ packet_q' = packet_q
              /\ wire' = wire
              /\ acks_sent' = acks_sent
              /\ tcp_addr' = tcp_addr
      ]_vars

QuitStopsStageWitness ==
    /\ quit_seen = Stages
    /\ msg_q # <<>>
    /\ packet_q # <<>>
    /\ cur_packet # NoPacket

\* C5: Client::send and Client::set_addr always return normally.
SubmitNeverFails ==
    ~(client_pc = "panicked" /\ last_op \in {"send", "set_addr"})

\* C6: a flush() that is blocked when Ctrl-C arrives eventually returns,
\* with the FlushedMsg or else through the warning branch.
InterruptReleasesFlush ==
    (Waiting /\ ctrlc_count > 0) ~> (FlushReturned /\ flush_result \in {"ok", "warn"})

InterruptReleasesFlushWitness ==
    /\ ctrlc_in_wait
    /\ FlushReturned
    /\ flush_result = "warn"
    /\ snd_pc = "quit"
    /\ cur_packet # NoPacket
    /\ wire # <<>>
    /\ \A j \in 1..Len(wire) : ~wire[j].ok

\* C7: flush() and drop return to the caller also when the pipeline has
\* been aborted; they do not fail.
FlushNeverFails ==
    ~(client_pc = "panicked" /\ last_op \in {"flush", "drop"})

\* C8: no worker thread hits a failed channel send: msg_encode never forwards
\* to a tcp_sender that has terminated, tcp_sender never acknowledges to a
\* handle that is gone.
WorkersNeverPanic ==
    enc_pc # "panicked" /\ snd_pc # "panicked"

\* C9: when an attempt succeeds after K failed attempts of the same packet,
\* it is attempt K+1 and the packet's only success, K waits have elapsed,
\* and the sender goes back to its select for the next item.
RetryEventuallySucceeds ==
    [][ (Len(wire') = Len(wire) + 1 /\ wire'[Len(wire')].ok) =>
            LET p == wire'[Len(wire')].packet IN
            /\ AttemptsOf(wire', p) = FailsOf(wire, p) + 1
            /\ OksOf(wire', p) = 1
            /\ Len(waits') = FailsOf(wire, p)
            /\ snd_pc' = "select"
            /\ cur_packet' = NoPacket
      ]_vars

RetryEventuallySucceedsWitness ==
    /\ Len(wire) >= 4
    /\ ~wire[1].ok /\ ~wire[2].ok /\ wire[3].ok
    /\ wire[1].packet = wire[3].packet
    /\ wire[4].packet # wire[3].packet

\* C10: the waits of one packet's retries are 100, 200, 400, 800, 1600, 3000,
\* 3000, ...: each between 100 and 3000, never decreasing, starting again at
\* 100 for every packet.
ExpectedWait(i) ==
    CASE i = 1 -> 100
      [] i = 2 -> 200
      [] i = 3 -> 400
      [] i = 4 -> 800
      [] i = 5 -> 1600
      [] OTHER -> 3000

BackoffGrowth ==
    /\ \A i \in 1..Len(waits) :
          /\ waits[i] = ExpectedWait(i)
          /\ waits[i] >= 100 /\ waits[i] <= 3000
          /\ i > 1 => waits[i] >= waits[i - 1]
    /\ snd_pc = "backoff" => sleep_ms = ExpectedWait(Len(waits) + 1)

BackoffGrowthWitness ==
    /\ Len(waits) = MaxRetryFail
    /\ waits[6] = 3000
    /\ waits[7] = 3000

\* The message a packet encodes (the encoding is injective)
MsgOfPacket(p) == p[1]

\* C11: every send attempt of a message, retries included, targets the
\* address of the last set_addr() call made before that message's send()
\* (the address of Client::new if there was none): a SetAddr is applied
\* neither ahead of an earlier packet nor after a later one.
AddressChangeInOrder ==
    \A j \in 1..Len(wire) :
        LET m == MsgOfPacket(wire[j].packet) IN
        /\ m \in 1..Len(sent_addr)
        /\ wire[j].addr = sent_addr[m]

AddressChangeInOrderWitness ==
    /\ Len(submitted) = 2
    /\ sent_addr = <<InitialAddr, OtherAddr>>
    /\ Len(wire) = 4
    /\ ~wire[1].ok /\ wire[2].ok /\ ~wire[3].ok /\ wire[4].ok
    /\ wire[1].addr = InitialAddr /\ wire[2].addr = InitialAddr
    /\ wire[3].addr = OtherAddr /\ wire[4].addr = OtherAddr

\* Where a submitted message is: in msg_q, encoded in packet_q, held by
\* send_until_success, or accepted by the connection (counted per success)
InMsgQ(m) == Cardinality({i \in 1..Len(msg_q) : msg_q[i] = MsgLogMsg(m)})
InPacketQ(m) ==
    Cardinality({i \in 1..Len(packet_q) : packet_q[i] = PacketPacket(encode_log_msg(m))})
InRetry(m) == IF snd_pc = "backoff" /\ cur_packet = encode_log_msg(m) THEN 1 ELSE 0
Places(m) == InMsgQ(m) + InPacketQ(m) + InRetry(m) + OksOf(wire, encode_log_msg(m))

\* The messages of producer p among the accepted packets, in order
RECURSIVE DeliveredOf(_, _)
DeliveredOf(pkts, p) ==
    IF pkts = <<>> THEN <<>>
    ELSE IF ProducerOf(MsgOfPacket(Head(pkts))) = p
         THEN <<MsgOfPacket(Head(pkts))>> \o DeliveredOf(Tail(pkts), p)
         ELSE DeliveredOf(Tail(pkts), p)

\* C12: with several producers and no interrupt, no message is lost or
\* duplicated (each is queued, being retried, or accepted exactly once, and
\* accepted once the pipeline is idle), and the accepted messages of each
\* producer are in that producer's submission order.
ConcurrentSubmissionSafety ==
    /\ \A i \in 1..Len(submitted) : Places(submitted[i]) = 1
    /\ \A p \in Producers :
          DeliveredOf(OkPackets(wire), p) =
              [k \in 1..Len(DeliveredOf(OkPackets(wire), p)) |-> ProducerMsg(p, k)]
    /\ (msg_q = <<>> /\ packet_q = <<>> /\ snd_pc = "select") =>
          \A i \in 1..Len(submitted) : OksOf(wire, encode_log_msg(submitted[i])) = 1

\* C13: when the handle has been dropped and no interrupt has fired, the
\* final flush was acknowledged, every submitted message was accepted by the
\* connection (once, in order) and nothing is left in the pipeline; while the
\* handle is not yet dropped and no interrupt has fired, both workers run.
NoLossOnTeardown ==
    /\ (client_pc = "dropped" /\ ctrlc_count = 0) =>
          /\ flush_result = "ok"
          /\ OkPackets(wire) = [i \in 1..Len(submitted) |-> encode_log_msg(submitted[i])]
          /\ msg_q = <<>>
          /\ packet_q = <<>>
          /\ flushed_q = 0
          /\ acks_sent > 0
    /\ (client_pc # "dropped" /\ ctrlc_count = 0) => (EncRunning /\ SndRunning)

\* C14: as long as no interrupt has fired, every message accepted by send()
\* is in exactly one place: in msg_q, encoded in packet_q, held by
\* send_until_success, or accepted by the connection exactly once.
OnlyInterruptAbandons ==
    ctrlc_count = 0 =>
        /\ \A i \in 1..Len(submitted) : Places(submitted[i]) = 1
        /\ client_pc # "panicked"
        /\ enc_pc # "panicked"

\* C15: while a packet submitted before the flush is still being retried,
\* flush() stays blocked; and if no interrupt fires, then (the network
\* refusing only finitely many attempts, the threads scheduled fairly) every
\* flush() eventually returns with the FlushedMsg.
FlushCompletesOnRecovery ==
    /\ []((Waiting /\ snd_pc = "backoff") => FlushRecv(flushed_q, SndRunning) = "blocked")
    /\ (Waiting /\ ctrlc_count = 0) ~>
           ((FlushReturned /\ flush_result = "ok") \/ ctrlc_count > 0)

\* C16: a list of ColorRGBA serialized to an Arrow array and collected back
\* is the original list, element for element and in order; the array holds
\* each u32 payload unchanged.
ColorRoundTrip ==
    /\ color_pc # "in" =>
          /\ Len(arrow_array) = Len(colors_in)
          /\ \A i \in 1..Len(colors_in) :
                arrow_array[i].valid /\ arrow_array[i].value = colors_in[i].rgba
    /\ color_pc = "out" => colors_out = colors_in

ColorRoundTripWitness ==
    /\ color_pc = "out"
    /\ Len(colors_in) = MaxColors
    /\ colors_in[1].rgba = U32(65535, 65535)
    /\ colors_in[2].rgba = U32(0, 0)
    /\ colors_in[3].rgba = U32(0, 255)
    /\ Len(colors_out) = MaxColors

\* C17: while send_until_success waits between retries and a QuitMsg is on
\* the sender's quit channel, no further send attempt is made, and the
\* sender's only step is to return: it takes no later item from packet_rx,
\* applies no address and sends no FlushedMsg.
AbortPreemptsBackoff ==
    [][ (snd_pc = "backoff" /\ send_quit_q > 0) =>
            /\ wire' = wire
            /\ acks_sent' = acks_sent
            /\ tcp_addr' = tcp_addr
            /\ Len(packet_q') >= Len(packet_q)
            /\ snd_pc' \in {"backoff", "quit"}
            /\ snd_pc' = "quit" => "tcp_sender" \in quit_seen'
      ]_vars

AbortPreemptsBackoffWitness ==
    /\ snd_pc = "quit"
    /\ cur_packet = encode_log_msg(1)
    /\ Len(wire) = 1
    /\ acks_sent = 0
    /\ \E i \in 1..Len(packet_q) : packet_q[i] = PacketFlush
    /\ \E i \in 1..Len(packet_q) : packet_q[i].type = "Packet"

\* C18: send_until_success leaves its retry loop only on a successful send
\* of the packet it holds or on a received QuitMsg; after any number of
\* failures it still holds the same packet and takes nothing from packet_rx.
NoRetryLimit ==
    [][ snd_pc = "backoff" =>
            \/ /\ snd_pc' = "backoff"
               /\ cur_packet' = cur_packet
               /\ Len(packet_q') >= Len(packet_q)
            \/ /\ snd_pc' = "select"
               /\ Len(wire') = Len(wire) + 1
               /\ wire'[Len(wire')].ok
               /\ wire'[Len(wire')].packet = cur_packet
            \/ /\ snd_pc' = "quit"
               /\ "tcp_sender" \in quit_seen'
               /\ wire' = wire
      ]_vars

NoRetryLimitWitness ==
    /\ snd_pc = "backoff"
    /\ Len(wire) = MaxRetryFail
    /\ \A j \in 1..Len(wire) : ~wire[j].ok /\ wire[j].packet = cur_packet
    /\ packet_q # <<>>

\* C19: a failed retry whose error text equals that of the immediately
\* preceding failed attempt logs nothing; one whose text differs logs a
\* warning that reports the new error.
ErrorLogDeduplication ==
    [][ (snd_pc = "backoff" /\ Len(wire') = Len(wire) + 1 /\ ~wire'[Len(wire')].ok) =>
            IF last_err' = last_err
            THEN warn_log' = warn_log
            ELSE warn_log' = Append(warn_log, Warning(last_err'))
      ]_vars

\* C20: msg_encode ends on a closed channel only when the handle is dropped
\* and msg_q is empty, tcp_sender only when msg_encode has ended and packet_q
\* is empty; and once the handle is dropped with no interrupt, both workers
\* eventually have ended (threads scheduled fairly, network recovering):
\* tcp_sender on its closed channel, msg_encode on its closed channel unless
\* a failed encoding had ended it before.
StagesTerminateOnClose ==
    /\ [](enc_pc = "closed" => (client_pc = "dropped" /\ msg_q = <<>>))
    /\ [](snd_pc = "closed" => (~EncRunning /\ packet_q = <<>> /\ cur_packet = NoPacket))
    /\ (client_pc = "dropped" /\ ctrlc_count = 0) ~>
           ((enc_pc \in {"closed", "panicked"} /\ snd_pc = "closed") \/ ctrlc_count > 0)
    /\ (client_pc = "dropped" /\ ctrlc_count = 0 /\ EncRunning) ~>
           (enc_pc = "closed" \/ ctrlc_count > 0)

StagesTerminateOnCloseWitness ==
    /\ enc_pc = "closed"
    /\ snd_pc = "closed"
    /\ ctrlc_count = 0
    /\ Len(OkPackets(wire)) = 2
    /\ tcp_addr = OtherAddr

\* C21: when encoding fails for the message msg_encode has just taken (it is
\* consumed and, with tcp_sender alive, nothing is forwarded for it),
\* msg_encode is back at its select, still running.
EncodingFailureNonFatal ==
    [][ (/\ enc_pc = "select"
         /\ msg_q # <<>>
         /\ Head(msg_q).type = "LogMsg"
         /\ SndRunning
         /\ msg_q' = Tail(msg_q)
         /\ packet_q' = packet_q)
            => enc_pc' = "select"
      ]_vars

\* C22: tcp_sender sends one FlushedMsg exactly when it takes a Flush, so at
\* most as many as there were flush() calls; the channel never holds more
\* than one, and only while the flush() call it answers is still waiting; a
\* flush() that receives one receives the answer to its own Flush (every
\* flush() call so far has then been answered, none is left over).
FlushAckMatching ==
    /\ [](acks_sent <= flush_calls)
    /\ [](flushed_q <= 1)
    /\ [](flushed_q = 1 => (client_pc \in {"flush_wait", "drop_wait"}
                              /\ acks_sent = flush_calls))
    /\ [][ /\ acks_sent' # acks_sent =>
                (/\ snd_pc = "select"
                 /\ packet_q # <<>>
                 /\ Head(packet_q).type = "Flush"
                 /\ packet_q' = Tail(packet_q)
                 /\ acks_sent' = acks_sent + 1
                 /\ flushed_q' = flushed_q + 1)
           /\ (/\ snd_pc = "select"
               /\ packet_q # <<>>
               /\ Head(packet_q).type = "Flush"
               /\ packet_q' = Tail(packet_q)
               /\ snd_pc' = "select") => acks_sent' = acks_sent + 1
           /\ (flush_result # "ok" /\ flush_result' = "ok") =>
                (flushed_q = 1 /\ flushed_q' = 0 /\ acks_sent = flush_calls)
         ]_vars

FlushAckMatchingWitness ==
    /\ flush_calls = 2
    /\ acks_sent = 2
    /\ flush_result = "ok"
    /\ client_pc = "idle"
    /\ ctrlc_count > 0

\* Whether sequence s is an initial part of sequence t
IsPrefix(s, t) == Len(s) <= Len(t) /\ \A i \in 1..Len(s) : s[i] = t[i]

\* C23: in every state, whenever and however the stages ended, the packets
\* accepted by the connection are, in order, the encodings of the first
\* messages submitted: no gap, no duplicate, no reordering.
PrefixUnderAbort ==
    IsPrefix(OkPackets(wire),
             [i \in 1..Len(submitted) |-> encode_log_msg(submitted[i])])

PrefixUnderAbortWitness ==
    /\ ctrlc_count > 0
    /\ snd_pc = "quit"
    /\ cur_packet # NoPacket
    /\ Len(OkPackets(wire)) = 1
    /\ Len(submitted) = 3
    /\ packet_q # <<>>

====
